---- MODULE Spec2Model ----
(***************************************************************************)
(* PyEthHelper: the transaction pipeline of EthContractHelper.py           *)
(* (DeployContract / CallContractFunc -> _DoTransaction -> _DetermineGas,  *)
(* _FillMessage, _SignTx, submission, receipt), the fee calculator, and    *)
(* the event poller of ContractEventHelper.py, and the node guard of       *)
(* GethNodeGuard.py.                                                       *)
(*                                                                         *)
(* Groups of variables, one per subsystem; each specification moves one    *)
(* group and leaves the others at their initial values:                    *)
(*   Spec          the transaction pipeline (one execution per behaviour)  *)
(*   SpecFee       DefaultFeeCalculator applied to bounded inputs          *)
(*   SpecPoll      WaitForEvent against a chain that grows                 *)
(*   SpecPollFair  SpecPoll with the poller's steps weakly fair            *)
(*   SpecPollRpc   SpecPoll with chain-client calls that may fail          *)
(*   SpecGas       _DetermineGas / _EstimateGas applied to bounded inputs  *)
(*   SpecNode      GethNodeGuard / GethDevNodeGuard, its callers and the   *)
(*                 node processes it spawns                                *)
(*   SpecBaseNode  the base class GethNodeGuard alone                      *)
(*   SpecBaseNodeFair  SpecBaseNode with Stop's steps and the end of a     *)
(*                 killed process weakly fair                              *)
(*   SpecFill      GethDevNodeGuard.FillAccount on a started guard         *)
(***************************************************************************)
EXTENDS Integers, Sequences, FiniteSets, TLC

(***************************************************************************)
(* Bounds of the model.                                                    *)
(***************************************************************************)
MaxGas == 1
MaxValue == 1
MaxBalance == 4
MaxGasPrice == 1
MaxPriorityFee == 1
MaxEstimate == 1
MaxFeeInput == 120
MaxFeeFloor == 3
MaxHead == 4
MaxFromBlock == 2
MaxTimeout == 2
MaxPeriod == 2
MaxGasEstimate == 40
MaxSpawns == 2
MaxTermTimeout == 2
MaxConnTimeout == 1
MaxKillLag == 1
MaxFillWei == 3
MaxFillEth == 3
MaxPruned == 1

(***************************************************************************)
(* Values of the program.                                                  *)
(***************************************************************************)
\* gas: Union[None, int] -- None is modelled by -1, outside the gas limits.
NoGas == -1
\* privKey: Union[None, str]
NoKey == "None"
Keys == {"K1", "K2"}
Addrs == {"A1", "A2"}
\* w3.eth.default_account before SetupSendingAccount assigns it
NoAccount == "unset"
\* w3.eth.account.from_key(privKey).address
AddrOf(k) == IF k = "K1" THEN "A1" ELSE "A2"
\* w3.eth.accounts[0], the node's first managed account
NodeAccount0 == "A1"
\* what the user may type at the confirmation prompt
UserInputs == {"yes", "YES", "Yes", "y", "no", ""}
\* str.lower() on the inputs above
Lower(s) == IF s \in {"yes", "YES", "Yes"} THEN "yes" ELSE s
\* transaction hashes the node may hand back
Hashes == {"h1", "h2"}
Mutabilities == {"payable", "nonpayable", "view", "pure"}
CtorMutabilities == {"payable", "nonpayable"}
EmptyMsg == [x \in {} |-> 0]
\* self.proc = None
\* amountWei=None, amountEth=None
NoAmount == -1

\* 'gas': 21000
TransferGas == 21000

NoProc == 0
Pids == 1 .. MaxSpawns

VARIABLES
    \* ---- transaction pipeline: inputs
    entry,            \* "cli": __main__.main, "lib": a direct library caller
    fileAddr,         \* the address _LoadAccountCredentials returns ("None": no --key-json)
    fileKey,          \* the private key _LoadAccountCredentials returns
    op,               \* "deploy" | "call"
    stateMutability,  \* the ABI entry's stateMutability
    gasArg,           \* the caller's gas (NoGas: None)
    valueArg,         \* the caller's value
    confirmPrompt,
    \* ---- transaction pipeline: program state
    pc,
    default_account,  \* w3.eth.default_account
    privKey,
    gas,
    value,
    msg,
    tx,
    balance,
    maxCost,
    signedTx,
    txHash,
    receipt,
    result,
    error,
    \* ---- transaction pipeline: what the execution did to its collaborators
    estimated,        \* the 'value' of each executable.estimate_gas call, in order
    feeCalls,         \* feeCalculator
    priceReads,       \* w3.eth.gas_price / w3.eth.max_priority_fee in _FillMessage
    callCalls,        \* executable.call
    buildCalls,       \* executable.build_transaction
    guardRuns,        \* the balance guard of _SignTx
    prompts,          \* input(...)
    confirm,          \* what the user typed at the last prompt
    signCalls,        \* w3.eth.account.sign_transaction
    submissions,      \* sequence of submissions, each [via, value, gas, sender, hash]
    waited,           \* sequence of hashes given to wait_for_transaction_receipt
    \* ---- fee calculator
    ethGasPrice,
    ethMaxPriorityFee,
    feeResult,
    feeDone,
    \* ---- the chain the event poller watches
    chainHead,        \* number of the newest block of the chain
    chainLogs,        \* block number -> whether the block holds logs of the event
    chainOldest,      \* the oldest block the node still serves (above 0: pruned history)
    \* ---- event poller (WaitForEvent)
    fromBlock,
    timeoutByBlkNum,
    ppc,
    blkPeriod,        \* GetBlockPeriod's result; the poller sleeps blkPeriod / 2
    queriedBlkNum,
    currBlkNum,
    pollResult,
    queriedSeq,       \* the blocks get_logs was asked for, in order
    slept,            \* whether the poller has slept in this execution
    queriedTo,        \* the toBlock of each get_logs call (queriedSeq: the fromBlock)
    rpcFailed,        \* whether a call to the chain client has raised
    probed,           \* the blocks GetBlockPeriod was given, each [number, timestamp]
    \* ---- gas resolution (_DetermineGas)
    gasIn,            \* the gas argument (NoGas: None)
    estGas,           \* what executable.estimate_gas returns, as a digit sequence
    gasOut,           \* what _DetermineGas returns, as a digit sequence
    gasDone,
    \* ---- node guard (GethNodeGuard / GethDevNodeGuard) and its processes
    guardKind,        \* "base": GethNodeGuard, "dev": GethDevNodeGuard
    termTimeout,      \* self.termTimeout, in units of waitInterval
    connTimeout,      \* self.connTimeout, in units of connInterval
    gpc,              \* where the guard's current call is ("idle": between calls)
    proc,             \* self.proc: the pid of the Popen object, NoProc for None
    procState,        \* pid -> "none" | "running" | "exited"
    listening,        \* the pid that answers on the HTTP port, NoProc for none
    w3,               \* self.w3 is not None
    devAccount,       \* self.devAccount is not None
    waitedTime,       \* Stop's waitedTime
    connWaited,       \* time since Start's startTime
    signals,          \* the signals delivered, each [pid, sig, waited]
    exitSeen,         \* pid -> waitedTime when proc.wait returned for its exit
    startedPid,       \* the pid spawned by the latest Start
    lastCall,         \* how the latest call ended: "Start" | "StartFailed" | "Stop"
    \* ---- GethDevNodeGuard.FillAccount
    accAddr,          \* the address to fill
    amountWei,        \* the amountWei argument (NoAmount: None)
    amountEth,        \* the amountEth argument (NoAmount: None)
    fpc,              \* "idle" | "fillAccount" | "send" | "receipt" | "done" | "failed"
    fillWei,          \* the local amountWei after line 149, as digits
    transfers,        \* the transactions handed to w3.eth.send_transaction
    fillReceipt,      \* the receipt waited for, if any
    fillError         \* the exception FillAccount raised

txInputs == <<entry, fileAddr, fileKey, op, stateMutability, gasArg, valueArg, confirmPrompt>>
txState == <<pc, default_account, privKey, gas, value, msg, tx, balance, maxCost,
             signedTx, txHash, receipt, result, error>>
txTrace == <<estimated, feeCalls, priceReads, callCalls, buildCalls, guardRuns,
             prompts, confirm, signCalls, submissions, waited>>
txVars == <<txInputs, txState, txTrace>>
feeVars == <<ethGasPrice, ethMaxPriorityFee, feeResult, feeDone>>
chainVars == <<chainHead, chainLogs, chainOldest>>
pollVars == <<fromBlock, timeoutByBlkNum, ppc, blkPeriod, queriedBlkNum, currBlkNum,
              pollResult, queriedSeq, slept, queriedTo, rpcFailed, probed>>
gasVars == <<gasIn, estGas, gasOut, gasDone>>
nodeVars == <<guardKind, termTimeout, connTimeout, gpc, proc, procState, listening, w3,
              devAccount, waitedTime, connWaited, signals, exitSeen, startedPid, lastCall>>
fillVars == <<accAddr, amountWei, amountEth, fpc, fillWei, transfers, fillReceipt, fillError>>
nonTxVars == <<feeVars, chainVars, pollVars, gasVars, nodeVars, fillVars>>
vars == <<txVars, feeVars, chainVars, pollVars, gasVars, nodeVars, fillVars>>

(***************************************************************************)
(* Pure functions of EthContractHelper.py                                  *)
(***************************************************************************)
Max(a, b) == IF a >= b THEN a ELSE b

\* a fee calculator that forgets the node's floor
DefaultFeeCalculator_NoFloor(p, f) ==
    LET maxPriorFee == (p * 2) \div 100
    IN  <<maxPriorFee, p + maxPriorFee>>

DefaultFeeCalculator(p, f) ==
    LET maxPriorFee == Max((p * 2) \div 100, f)
    IN  <<maxPriorFee, p + maxPriorFee>>

(***************************************************************************)
(* Python's integers are unbounded and `gas * 1.1` is a double: naturals   *)
(* are kept as little-endian digit sequences in base LimbBase, without a   *)
(* leading zero digit (<<>> is 0), so that estimates beyond the range of   *)
(* the model checker's integers can be multiplied and rounded exactly.     *)
(***************************************************************************)
LimbBits == 12
LimbBase == 4096

RECURSIVE Pow2(_)
Pow2(k) == IF k = 0 THEN 1 ELSE 2 * Pow2(k - 1)

RECURSIVE Norm(_)
Norm(a) ==
    IF a = <<>> THEN <<>>
    ELSE IF a[Len(a)] = 0 THEN Norm(SubSeq(a, 1, Len(a) - 1)) ELSE a

RECURSIVE NatOf(_)
NatOf(i) == IF i = 0 THEN <<>> ELSE <<i % LimbBase>> \o NatOf(i \div LimbBase)

RECURSIVE IntOf(_)
IntOf(a) == IF a = <<>> THEN 0 ELSE a[1] + LimbBase * IntOf(Tail(a))

Digit(a, i) == IF i \in DOMAIN a THEN a[i] ELSE 0
Rest(a) == IF a = <<>> THEN <<>> ELSE Tail(a)

RECURSIVE AddCarry(_, _, _)
AddCarry(a, b, c) ==
    IF a = <<>> /\ b = <<>> THEN NatOf(c)
    ELSE LET x == Digit(a, 1) + Digit(b, 1) + c
         IN  <<x % LimbBase>> \o AddCarry(Rest(a), Rest(b), x \div LimbBase)

AddN(a, b) == Norm(AddCarry(a, b, 0))

\* a * m + c for a digit-sized m
RECURSIVE MulDigit(_, _, _)
MulDigit(a, m, c) ==
    IF a = <<>> THEN NatOf(c)
    ELSE LET x == a[1] * m + c
         IN  <<x % LimbBase>> \o MulDigit(Tail(a), m, x \div LimbBase)

ShiftDigits(a, k) == IF a = <<>> \/ k = 0 THEN a ELSE [i \in 1 .. k |-> 0] \o a

RECURSIVE MulN(_, _)
MulN(a, b) ==
    IF a = <<>> \/ b = <<>> THEN <<>>
    ELSE AddN(Norm(MulDigit(a, b[1], 0)), ShiftDigits(MulN(a, Tail(b)), 1))

RECURSIVE LessFromTop(_, _, _)
LessFromTop(a, b, i) ==
    IF i = 0 THEN FALSE
    ELSE IF a[i] # b[i] THEN a[i] < b[i] ELSE LessFromTop(a, b, i - 1)

LessN(a, b) == IF Len(a) # Len(b) THEN Len(a) < Len(b) ELSE LessFromTop(a, b, Len(a))
LeqN(a, b) == ~LessN(b, a)

RECURSIVE BitLenInt(_)
BitLenInt(x) == IF x = 0 THEN 0 ELSE 1 + BitLenInt(x \div 2)

BitLen(a) == IF a = <<>> THEN 0 ELSE LimbBits * (Len(a) - 1) + BitLenInt(a[Len(a)])

\* floor(a / 2^k)
ShrN(a, k) ==
    LET d == k \div LimbBits
        r == k % LimbBits
        b == IF d >= Len(a) THEN <<>> ELSE SubSeq(a, d + 1, Len(a))
    IN  Norm([i \in 1 .. Len(b) |->
                (b[i] \div Pow2(r)) + (Digit(b, i + 1) % Pow2(r)) * Pow2(LimbBits - r)])

\* a mod 2^k
LowBits(a, k) ==
    LET d == k \div LimbBits
        r == k % LimbBits
    IN  Norm([i \in 1 .. d + 1 |-> IF i <= d THEN Digit(a, i) ELSE Digit(a, i) % Pow2(r)])

\* a * 2^k
ShlN(a, k) == ShiftDigits(Norm(MulDigit(a, Pow2(k % LimbBits), 0)), k \div LimbBits)

IsOdd(a) == a # <<>> /\ a[1] % 2 = 1

\* the literal 1.1 is the double 4953959590107546 / 2^52
DoubleOnePointOne == <<2458, 2457, 2457, 2457, 17>>
FractionBits == 52
\* a double's significand
MantissaBits == 53

\* an estimate handed on without the margin
InflateNat_NoMargin(n) == n

\* int(gas * 1.1) for 0 <= gas < 2^53: the exact product, rounded to the
\* nearest double (ties to even), truncated to an integer
InflateNat(n) ==
    LET product == MulN(n, DoubleOnePointOne)
        shift == Max(BitLen(product) - MantissaBits, 0)
        q0 == ShrN(product, shift)
        rem == LowBits(product, shift)
        half == IF shift = 0 THEN <<>> ELSE ShlN(<<1>>, shift - 1)
        roundUp == shift > 0 /\ (LessN(half, rem) \/ (rem = half /\ IsOdd(q0)))
        q == IF roundUp THEN AddN(q0, <<1>>) ELSE q0
    IN  IF shift >= FractionBits
        THEN ShlN(q, shift - FractionBits)
        ELSE ShrN(q, FractionBits - shift)

\* int(gas * 1.1) on the integers of the pipeline
Inflate(est) == IntOf(InflateNat(NatOf(est)))

\* `gas is None` confused with a falsy test
GasIsNone_Falsy(g) == g = NoGas \/ g = 0

GasIsNone(g) == g = NoGas

\* value passed on whatever the mutability
EffectiveValue_Always(mutability, v) == v

\* value if isPayable else 0
EffectiveValue(mutability, v) == IF mutability = "payable" THEN v ELSE 0

\* the pre-0.4.16 ABI flag tested instead of stateMutability's "view"
IsViewFunc_Constant(mutability) == mutability = "constant"

IsViewFunc(mutability) == mutability = "view"

\* a guard that charges the base fee only, the priority fee taken off the ceiling
MaxCostOf_BaseOnly(t) == (t.maxFeePerGas - t.maxPriorityFeePerGas) * t.gas + t.value

\* maxFee + value of _SignTx
MaxCostOf(t) == (t.maxFeePerGas + t.maxPriorityFeePerGas) * t.gas + t.value

\* a guard that also rejects the boundary
BalanceGuardRejects_Boundary(cost, bal) == cost >= bal

BalanceGuardRejects(cost, bal) == cost > bal

\* a prompt that wants the lower-case word
PromptRejects_CaseSensitive(typed) == typed # "yes"

\* a prompt that accepts anything
PromptRejects_Never(typed) == FALSE

PromptRejects(typed) == Lower(typed) # "yes"

\* the comparison of SetupSendingAccount
KeyMismatch(k, account) == AddrOf(k) # account

\* chain_id of the node the pipeline talks to
ChainId == 1337

(***************************************************************************)
(* The transaction pipeline                                                *)
(***************************************************************************)
TxIdle ==
    /\ gas = gasArg /\ value = valueArg
    /\ msg = EmptyMsg /\ tx = EmptyMsg
    /\ balance = 0 /\ maxCost = 0
    /\ signedTx = EmptyMsg /\ txHash = "none" /\ receipt = EmptyMsg
    /\ result = "none" /\ error = "none"
    /\ estimated = <<>> /\ feeCalls = 0 /\ priceReads = 0 /\ callCalls = 0
    /\ buildCalls = 0 /\ guardRuns = 0 /\ prompts = 0 /\ confirm = "none"
    /\ signCalls = 0
    /\ submissions = <<>> /\ waited = <<>>

TxInit ==
    /\ entry \in {"cli", "lib"}
    /\ op \in {"deploy", "call"}
    /\ stateMutability \in (IF op = "deploy" THEN CtorMutabilities ELSE Mutabilities)
    /\ gasArg \in {NoGas} \cup (0 .. MaxGas)
    /\ valueArg \in 0 .. MaxValue
    /\ confirmPrompt \in BOOLEAN
    /\ \/ /\ entry = "cli"
          /\ fileAddr \in {"None"} \cup Addrs
          /\ fileKey \in (IF fileAddr = "None" THEN {NoKey} ELSE Keys)
          /\ default_account = NoAccount
          /\ privKey = NoKey
          /\ pc = "setup"
       \/ /\ entry = "lib"
          /\ fileAddr = "None" /\ fileKey = NoKey
          /\ default_account \in Addrs
          /\ privKey \in {NoKey} \cup Keys
          /\ pc = "entry"
    /\ TxIdle

Fail(kind) == pc' = "failed" /\ error' = kind

\* SetupSendingAccount(w3, account, keyJson), as __main__.main calls it
SetupSendingAccount ==
    /\ pc = "setup"
    /\ IF fileAddr # "None"
       THEN /\ default_account' = fileAddr
            /\ privKey' = fileKey
            /\ IF KeyMismatch(fileKey, fileAddr)
               THEN Fail("KeyMismatch")
               ELSE pc' = "entry" /\ UNCHANGED error
       ELSE /\ default_account' = NodeAccount0
            /\ privKey' = NoKey
            /\ pc' = "entry" /\ UNCHANGED error
    /\ UNCHANGED <<txInputs, gas, value, msg, tx, balance, maxCost, signedTx, txHash,
                   receipt, result, txTrace, nonTxVars>>

\* DeployContract up to its call of _DoTransaction
DeployContract ==
    /\ pc = "entry" /\ op = "deploy"
    /\ value' = EffectiveValue(stateMutability, valueArg)
    /\ pc' = "determineGas"
    /\ UNCHANGED <<txInputs, default_account, privKey, gas, msg, tx, balance, maxCost,
                   signedTx, txHash, receipt, result, error, txTrace, nonTxVars>>

\* CallContractFunc on a view function: executable.call() and return
CallView ==
    /\ pc = "entry" /\ op = "call"
    /\ IsViewFunc(stateMutability)
    /\ callCalls' = callCalls + 1
    /\ result' = "callResult"
    /\ pc' = "done"
    /\ UNCHANGED <<txInputs, default_account, privKey, gas, value, msg, tx, balance,
                   maxCost, signedTx, txHash, receipt, error, estimated, feeCalls,
                   priceReads, buildCalls, guardRuns, prompts, confirm, signCalls, submissions,
                   waited, nonTxVars>>

\* CallContractFunc on any other function, up to its call of _DoTransaction
CallTransact ==
    /\ pc = "entry" /\ op = "call"
    /\ ~IsViewFunc(stateMutability)
    /\ value' = EffectiveValue(stateMutability, valueArg)
    /\ pc' = "determineGas"
    /\ UNCHANGED <<txInputs, default_account, privKey, gas, msg, tx, balance, maxCost,
                   signedTx, txHash, receipt, result, error, txTrace, nonTxVars>>

\* _DetermineGas, with _EstimateGas when gas is None; the estimate may fail
DetermineGas ==
    /\ pc = "determineGas"
    /\ IF GasIsNone(gas)
       THEN /\ estimated' = Append(estimated, value)
            /\ \/ Fail("EstimationError") /\ UNCHANGED gas
               \/ \E est \in 0 .. MaxEstimate :
                     /\ gas' = Inflate(est)
                     /\ pc' = "fillMessage" /\ UNCHANGED error
       ELSE /\ pc' = "fillMessage"
            /\ UNCHANGED <<gas, error, estimated>>
    /\ UNCHANGED <<txInputs, default_account, privKey, value, msg, tx, balance, maxCost,
                   signedTx, txHash, receipt, result, feeCalls, priceReads, callCalls,
                   buildCalls, guardRuns, prompts, confirm, signCalls, submissions, waited,
                   nonTxVars>>

\* a _FillMessage that reads the prices and adds the fee fields whatever the key
FillMessage_FeesAlways ==
    /\ pc = "fillMessage"
    /\ \E price \in 0 .. MaxGasPrice, floor \in 0 .. MaxPriorityFee :
          LET fees == DefaultFeeCalculator(price, floor)
          IN  msg' = [nonce |-> 0, chainId |-> ChainId, gas |-> gas, value |-> value,
                      maxPriorityFeePerGas |-> fees[1], maxFeePerGas |-> fees[2]]
    /\ feeCalls' = feeCalls + 1
    /\ priceReads' = priceReads + 1
    /\ pc' = IF privKey # NoKey THEN "build" ELSE "transact"
    /\ UNCHANGED <<txInputs, default_account, privKey, gas, value, tx, balance, maxCost,
                   signedTx, txHash, receipt, result, error, estimated, callCalls,
                   buildCalls, guardRuns, prompts, confirm, signCalls, submissions, waited,
                   nonTxVars>>

\* _FillMessage, then the branch of _DoTransaction on privKey
FillMessage ==
    /\ pc = "fillMessage"
    /\ LET base == [nonce |-> 0, chainId |-> ChainId, gas |-> gas, value |-> value]
       IN  IF privKey # NoKey
           THEN \E price \in 0 .. MaxGasPrice, floor \in 0 .. MaxPriorityFee :
                   LET fees == DefaultFeeCalculator(price, floor)
                   IN  /\ msg' = base @@ [maxPriorityFeePerGas |-> fees[1],
                                          maxFeePerGas |-> fees[2]]
                       /\ feeCalls' = feeCalls + 1
                       /\ priceReads' = priceReads + 1
                       /\ pc' = "build"
           ELSE /\ msg' = base
                /\ pc' = "transact"
                /\ UNCHANGED <<feeCalls, priceReads>>
    /\ UNCHANGED <<txInputs, default_account, privKey, gas, value, tx, balance, maxCost,
                   signedTx, txHash, receipt, result, error, estimated, callCalls,
                   buildCalls, guardRuns, prompts, confirm, signCalls, submissions, waited,
                   nonTxVars>>

\* executable.transact(msg): the node signs for the default account
Transact ==
    /\ pc = "transact"
    /\ \E h \in Hashes :
          /\ submissions' = Append(submissions,
                [via |-> "transact", value |-> msg.value, gas |-> msg.gas,
                 sender |-> default_account, hash |-> h])
          /\ txHash' = h
    /\ pc' = "waitReceipt"
    /\ UNCHANGED <<txInputs, default_account, privKey, gas, value, msg, tx, balance,
                   maxCost, signedTx, receipt, result, error, estimated, feeCalls,
                   priceReads, callCalls, buildCalls, guardRuns, prompts, confirm, signCalls,
                   waited, nonTxVars>>

\* executable.build_transaction(msg): the fields of msg plus the call data
BuildTransaction ==
    /\ pc = "build"
    /\ tx' = msg @@ [data |-> "calldata"]
    /\ buildCalls' = buildCalls + 1
    /\ pc' = "signTx"
    /\ UNCHANGED <<txInputs, default_account, privKey, gas, value, msg, balance, maxCost,
                   signedTx, txHash, receipt, result, error, estimated, feeCalls,
                   priceReads, callCalls, guardRuns, prompts, confirm, signCalls, submissions,
                   waited, nonTxVars>>

\* _SignTx, first part: read the balance, compute maxCost, reject or go on
SignTxGuard ==
    /\ pc = "signTx"
    /\ \E bal \in 0 .. MaxBalance :
          /\ balance' = bal
          /\ maxCost' = MaxCostOf(tx)
          /\ IF BalanceGuardRejects(MaxCostOf(tx), bal)
             THEN Fail("InsufficientBalance")
             ELSE /\ pc' = IF confirmPrompt THEN "prompt" ELSE "sign"
                  /\ UNCHANGED error
    /\ guardRuns' = guardRuns + 1
    /\ UNCHANGED <<txInputs, default_account, privKey, gas, value, msg, tx, signedTx,
                   txHash, receipt, result, estimated, feeCalls, priceReads,
                   callCalls, buildCalls, prompts, confirm, signCalls, submissions, waited,
                   nonTxVars>>

\* _SignTx, the confirmation prompt
SignTxPrompt ==
    /\ pc = "prompt"
    /\ prompts' = prompts + 1
    /\ \E typed \in UserInputs :
          /\ confirm' = typed
          /\ IF PromptRejects(typed)
             THEN Fail("Cancelled")
             ELSE pc' = "sign" /\ UNCHANGED error
    /\ UNCHANGED <<txInputs, default_account, privKey, gas, value, msg, tx, balance,
                   maxCost, signedTx, txHash, receipt, result, estimated, feeCalls,
                   priceReads, callCalls, buildCalls, guardRuns, signCalls, submissions,
                   waited, nonTxVars>>

\* _SignTx, w3.eth.account.sign_transaction(tx, privKey): the signature is the key's
SignTxSign ==
    /\ pc = "sign"
    /\ signedTx' = [tx |-> tx, signer |-> AddrOf(privKey)]
    /\ signCalls' = signCalls + 1
    /\ pc' = "sendRaw"
    /\ UNCHANGED <<txInputs, default_account, privKey, gas, value, msg, tx, balance,
                   maxCost, txHash, receipt, result, error, estimated, feeCalls,
                   priceReads, callCalls, buildCalls, guardRuns, prompts, confirm, submissions,
                   waited, nonTxVars>>

\* w3.eth.send_raw_transaction(signedTx.rawTransaction)
SendRawTransaction ==
    /\ pc = "sendRaw"
    /\ \E h \in Hashes :
          /\ submissions' = Append(submissions,
                [via |-> "raw", value |-> signedTx.tx.value, gas |-> signedTx.tx.gas,
                 sender |-> signedTx.signer, hash |-> h])
          /\ txHash' = h
    /\ pc' = "waitReceipt"
    /\ UNCHANGED <<txInputs, default_account, privKey, gas, value, msg, tx, balance,
                   maxCost, signedTx, receipt, result, error, estimated, feeCalls,
                   priceReads, callCalls, buildCalls, guardRuns, prompts, confirm, signCalls,
                   waited, nonTxVars>>

\* the hash _DoTransaction waits on
WaitHash == txHash

\* a _DoTransaction that raises when the receipt reports a failed transaction
WaitForReceipt_RaisesOnFailure ==
    /\ pc = "waitReceipt"
    /\ waited' = Append(waited, WaitHash)
    /\ \E status \in {0, 1} :
          /\ receipt' = [status |-> status, transactionHash |-> WaitHash]
          /\ IF status # 1
             THEN Fail("TransactionFailed") /\ UNCHANGED result
             ELSE result' = "receipt" /\ pc' = "done" /\ UNCHANGED error
    /\ UNCHANGED <<txInputs, default_account, privKey, gas, value, msg, tx, balance,
                   maxCost, signedTx, txHash, estimated, feeCalls, priceReads,
                   callCalls, buildCalls, guardRuns, prompts, confirm, signCalls, submissions,
                   nonTxVars>>

\* w3.eth.wait_for_transaction_receipt(txHash) and the return of the receipt
WaitForReceipt ==
    /\ pc = "waitReceipt"
    /\ waited' = Append(waited, WaitHash)
    /\ \E status \in {0, 1} :
          /\ receipt' = [status |-> status, transactionHash |-> WaitHash]
          /\ result' = "receipt"
    /\ pc' = "done"
    /\ UNCHANGED <<txInputs, default_account, privKey, gas, value, msg, tx, balance,
                   maxCost, signedTx, txHash, error, estimated, feeCalls, priceReads,
                   callCalls, buildCalls, guardRuns, prompts, confirm, signCalls, submissions,
                   nonTxVars>>

FeeIdle ==
    /\ ethGasPrice = 0 /\ ethMaxPriorityFee = 0
    /\ feeResult = <<0, 0>> /\ feeDone = FALSE

PollIdle ==
    /\ chainHead = 0 /\ chainLogs = [b \in {0} |-> FALSE] /\ chainOldest = 0
    /\ fromBlock = 0 /\ timeoutByBlkNum = -1
    /\ ppc = "idle" /\ blkPeriod = 0
    /\ queriedBlkNum = 0 /\ currBlkNum = 0
    /\ pollResult = <<>> /\ queriedSeq = <<>> /\ slept = FALSE
    /\ queriedTo = <<>> /\ rpcFailed = FALSE /\ probed = <<>>

FillIdle ==
    /\ fpc = "idle" /\ accAddr = NoAccount
    /\ amountWei = NoAmount /\ amountEth = NoAmount
    /\ fillWei = <<>> /\ transfers = <<>> /\ fillReceipt = <<>> /\ fillError = "none"

GasIdle == gasIn = NoGas /\ estGas = <<>> /\ gasOut = <<>> /\ gasDone = FALSE

NodeIdle ==
    /\ guardKind = "base" /\ termTimeout = 0 /\ connTimeout = 0
    /\ gpc = "idle" /\ proc = NoProc
    /\ procState = [p \in Pids |-> "none"]
    /\ listening = NoProc /\ w3 = FALSE /\ devAccount = FALSE
    /\ waitedTime = 0 /\ connWaited = 0
    /\ signals = <<>> /\ exitSeen = EmptyMsg
    /\ startedPid = NoProc /\ lastCall = "none"

Init == TxInit /\ FeeIdle /\ PollIdle /\ GasIdle /\ NodeIdle /\ FillIdle

Next ==
    \/ SetupSendingAccount
    \/ DeployContract
    \/ CallView
    \/ CallTransact
    \/ DetermineGas
    \/ FillMessage
    \/ Transact
    \/ BuildTransaction
    \/ SignTxGuard
    \/ SignTxPrompt
    \/ SignTxSign
    \/ SendRawTransaction
    \/ WaitForReceipt

Spec == Init /\ [][Next]_vars

\* no pipeline execution: the state of the pipeline's variables in the other specifications
TxParked ==
    /\ entry = "lib" /\ fileAddr = "None" /\ fileKey = NoKey
    /\ op = "call" /\ stateMutability = "view"
    /\ gasArg = NoGas /\ valueArg = 0 /\ confirmPrompt = FALSE
    /\ default_account = NoAccount /\ privKey = NoKey
    /\ pc = "idle"
    /\ TxIdle

(***************************************************************************)
(* The fee calculator on its own                                           *)
(***************************************************************************)
FeeInit ==
    /\ ethGasPrice \in 0 .. MaxFeeInput
    /\ ethMaxPriorityFee \in 0 .. MaxFeeFloor
    /\ feeResult = <<0, 0>> /\ feeDone = FALSE

ComputeFees ==
    /\ ~feeDone
    /\ feeResult' = DefaultFeeCalculator(ethGasPrice, ethMaxPriorityFee)
    /\ feeDone' = TRUE
    /\ UNCHANGED <<ethGasPrice, ethMaxPriorityFee, txVars, chainVars, pollVars, gasVars, nodeVars, fillVars>>

InitFee == TxParked /\ FeeInit /\ PollIdle /\ GasIdle /\ NodeIdle /\ FillIdle

NextFee == ComputeFees

SpecFee == InitFee /\ [][NextFee]_vars

(***************************************************************************)
(* Gas resolution on its own                                               *)
(***************************************************************************)
\* _DetermineGas(executable, gas, value) given what estimate_gas returns
ResolvedGas(g, est) == IF GasIsNone(g) THEN InflateNat(est) ELSE NatOf(g)

\* where the estimates of the model start: 0, 499999999999950 (just below
\* 5 * 10^14) and 511772684928430 (where estimate * 1.1 reaches 2^49)
EstimateBases == {<<>>, <<4046, 1587, 3922, 3179, 1>>, <<1454, 372, 1117, 3351, 1>>}

GasInit ==
    /\ gasIn \in {NoGas} \cup (0 .. MaxGas)
    /\ estGas \in {AddN(base, NatOf(k)) : base \in EstimateBases, k \in 0 .. MaxGasEstimate}
    /\ gasOut = <<>> /\ gasDone = FALSE

ResolveGas ==
    /\ ~gasDone
    /\ gasOut' = ResolvedGas(gasIn, estGas)
    /\ gasDone' = TRUE
    /\ UNCHANGED <<gasIn, estGas, txVars, feeVars, chainVars, pollVars, nodeVars, fillVars>>

InitGas == TxParked /\ FeeIdle /\ PollIdle /\ GasInit /\ NodeIdle /\ FillIdle

NextGas == ResolveGas

SpecGas == InitGas /\ [][NextGas]_vars

(***************************************************************************)
(* The event poller and the chain                                          *)
(***************************************************************************)
\* the log entries of block b: get_logs hands back a list the poller only
\* measures and returns, so one entry stands for a block's matching logs
LogsOf(b) == IF chainLogs[b] THEN <<[blockNumber |-> b, logIndex |-> 0]>> ELSE <<>>

\* event.get_logs(fromBlock=lo, toBlock=hi) on the chain as it is
RECURSIVE GetLogs(_, _)
GetLogs(lo, hi) ==
    IF lo > hi THEN <<>>
    ELSE (IF lo \in DOMAIN chainLogs THEN LogsOf(lo) ELSE <<>>) \o GetLogs(lo + 1, hi)

\* w3.eth.get_block(n) finds the block
BlockAvailable(n) == n >= chainOldest /\ n <= chainHead

\* the difference taken the wrong way round
BlockPeriod_Swapped(probeTs, prevTs) == prevTs - probeTs

\* probeBlk.timestamp - prevBlk.timestamp
BlockPeriod(probeTs, prevTs) == probeTs - prevTs

\* a found test that wants more than one log
HasLogs_MoreThanOne(logs) == Len(logs) > 1

\* len(logs) > 0
HasLogs(logs) == Len(logs) > 0

\* a timeout that takes 0 for a window of no blocks
TimedOut_ZeroCounts(queried, from, timeout) == timeout >= 0 /\ queried >= from + timeout

\* a timeout that fires one block late
TimedOut_Late(queried, from, timeout) == timeout > 0 /\ queried > from + timeout

\* (timeoutByBlkNum > 0) and (queriedBlkNum >= (fromBlock + timeoutByBlkNum))
TimedOut(queried, from, timeout) == timeout > 0 /\ queried >= from + timeout

PollInit ==
    /\ chainHead \in 0 .. MaxHead
    /\ chainLogs \in [0 .. chainHead -> BOOLEAN]
    /\ chainOldest \in 0 .. MaxPruned
    /\ fromBlock \in 0 .. MaxFromBlock
    /\ timeoutByBlkNum \in -1 .. MaxTimeout
    /\ ppc = "getBlockPeriod" /\ blkPeriod = 0
    /\ queriedBlkNum = 0 /\ currBlkNum = 0
    /\ pollResult = <<>> /\ queriedSeq = <<>> /\ slept = FALSE
    /\ queriedTo = <<>> /\ rpcFailed = FALSE /\ probed = <<>>

\* the chain produces its next block
NewBlock ==
    /\ chainHead < MaxHead
    /\ chainHead' = chainHead + 1
    /\ \E holds \in BOOLEAN :
          chainLogs' = [b \in 0 .. chainHead + 1 |->
                           IF b = chainHead + 1 THEN holds ELSE chainLogs[b]]
    /\ UNCHANGED <<chainOldest, txVars, feeVars, pollVars, gasVars, nodeVars, fillVars>>

\* GetBlockPeriod(w3, fromBlock), queriedBlkNum = fromBlock - 1, currBlkNum = block_number;
\* get_block raises when the node does not have the block
GetBlockPeriod ==
    /\ ppc = "getBlockPeriod"
    /\ IF BlockAvailable(fromBlock) /\ BlockAvailable(fromBlock - 1)
       THEN /\ \E prevTs \in 0 .. 1, period \in 1 .. MaxPeriod :
                  LET probeTs == prevTs + period
                  IN  /\ blkPeriod' = BlockPeriod(probeTs, prevTs)
                      /\ probed' = <<[number |-> fromBlock, timestamp |-> probeTs],
                                     [number |-> fromBlock - 1, timestamp |-> prevTs]>>
            /\ queriedBlkNum' = fromBlock - 1
            /\ currBlkNum' = chainHead
            /\ ppc' = "loop"
       ELSE /\ ppc' = "blockNotFound"
            /\ IF BlockAvailable(fromBlock)
               THEN \E probeTs \in 1 .. MaxPeriod :
                       probed' = <<[number |-> fromBlock, timestamp |-> probeTs]>>
               ELSE UNCHANGED probed
            /\ UNCHANGED <<blkPeriod, queriedBlkNum, currBlkNum>>
    /\ UNCHANGED <<fromBlock, timeoutByBlkNum, pollResult, queriedSeq, slept,
                   queriedTo, rpcFailed, txVars, feeVars, chainVars, gasVars, nodeVars, fillVars>>

\* the loop's first branch: nothing new to inspect, go to sleep
LoopWait ==
    /\ ppc = "loop"
    /\ queriedBlkNum >= currBlkNum
    /\ ppc' = "sleep"
    /\ slept' = TRUE
    /\ UNCHANGED <<fromBlock, timeoutByBlkNum, probed, blkPeriod, queriedBlkNum, currBlkNum,
                   pollResult, queriedSeq, queriedTo, rpcFailed,
                   txVars, feeVars, chainVars, gasVars, nodeVars, fillVars>>

\* time.sleep(blkPeriodHalf) is over: currBlkNum = w3.eth.block_number; continue
SleepRefresh ==
    /\ ppc = "sleep"
    /\ currBlkNum' = chainHead
    /\ ppc' = "loop"
    /\ UNCHANGED <<fromBlock, timeoutByBlkNum, probed, blkPeriod, queriedBlkNum, pollResult,
                   queriedSeq, slept, queriedTo, rpcFailed,
                   txVars, feeVars, chainVars, gasVars, nodeVars, fillVars>>

\* a loop that takes the head's successor for a block it may query
LoopQuery_AheadOfHead ==
    /\ ppc = "loop"
    /\ ~(queriedBlkNum > currBlkNum)
    /\ LET n == queriedBlkNum + 1
           logs == GetLogs(n, n)
       IN  /\ queriedBlkNum' = n
           /\ queriedSeq' = Append(queriedSeq, n)
           /\ queriedTo' = Append(queriedTo, n)
           /\ IF HasLogs(logs)
              THEN ppc' = "found" /\ pollResult' = logs
              ELSE IF TimedOut(n, fromBlock, timeoutByBlkNum)
                   THEN ppc' = "timedOut" /\ pollResult' = <<>>
                   ELSE ppc' = "loop" /\ UNCHANGED pollResult
    /\ UNCHANGED <<fromBlock, timeoutByBlkNum, probed, blkPeriod, currBlkNum, slept, rpcFailed,
                   txVars, feeVars, chainVars, gasVars, nodeVars, fillVars>>

\* the rest of the loop body: query the next block, return on logs or on timeout
LoopQuery ==
    /\ ppc = "loop"
    /\ ~(queriedBlkNum >= currBlkNum)
    /\ LET n == queriedBlkNum + 1
           logs == GetLogs(n, n)
       IN  /\ queriedBlkNum' = n
           /\ queriedSeq' = Append(queriedSeq, n)
           /\ queriedTo' = Append(queriedTo, n)
           /\ IF HasLogs(logs)
              THEN ppc' = "found" /\ pollResult' = logs
              ELSE IF TimedOut(n, fromBlock, timeoutByBlkNum)
                   THEN ppc' = "timedOut" /\ pollResult' = <<>>
                   ELSE ppc' = "loop" /\ UNCHANGED pollResult
    /\ UNCHANGED <<fromBlock, timeoutByBlkNum, probed, blkPeriod, currBlkNum, slept, rpcFailed,
                   txVars, feeVars, chainVars, gasVars, nodeVars, fillVars>>

PollerNext == GetBlockPeriod \/ LoopWait \/ SleepRefresh \/ LoopQuery

InitPoll == TxParked /\ FeeIdle /\ PollInit /\ GasIdle /\ NodeIdle /\ FillIdle

NextPoll ==
    \/ NewBlock
    \/ GetBlockPeriod
    \/ LoopWait
    \/ SleepRefresh
    \/ LoopQuery

SpecPoll == InitPoll /\ [][NextPoll]_vars

\* the poller is a running thread: whenever it can take a step it does; the
\* chain is under no obligation to produce blocks
SpecPollFair == SpecPoll /\ WF_vars(PollerNext)

(***************************************************************************)
(* The event poller when calls to the chain client may raise: WaitForEvent *)
(* has no try / except, so the exception leaves it                         *)
(***************************************************************************)
\* get_block (lines 28-29) or the first block_number (line 43) raises for a failure of the client
GetBlockPeriodFails ==
    /\ ppc = "getBlockPeriod"
    /\ rpcFailed' = TRUE
    /\ ppc' = "rpcError"
    /\ UNCHANGED <<fromBlock, timeoutByBlkNum, probed, blkPeriod, queriedBlkNum, currBlkNum,
                   pollResult, queriedSeq, slept, queriedTo,
                   txVars, feeVars, chainVars, gasVars, nodeVars, fillVars>>

\* the block_number after the sleep (line 48) raises
SleepRefreshFails ==
    /\ ppc = "sleep"
    /\ rpcFailed' = TRUE
    /\ ppc' = "rpcError"
    /\ UNCHANGED <<fromBlock, timeoutByBlkNum, probed, blkPeriod, queriedBlkNum, currBlkNum,
                   pollResult, queriedSeq, slept, queriedTo,
                   txVars, feeVars, chainVars, gasVars, nodeVars, fillVars>>

\* a poller that swallows the error of get_logs and asks again
LoopQueryFails_Retry ==
    /\ ppc = "loop"
    /\ ~(queriedBlkNum >= currBlkNum)
    /\ LET n == queriedBlkNum + 1
       IN  /\ queriedSeq' = Append(queriedSeq, n)
           /\ queriedTo' = Append(queriedTo, n)
    /\ rpcFailed' = TRUE
    /\ UNCHANGED <<fromBlock, timeoutByBlkNum, probed, ppc, blkPeriod, queriedBlkNum, currBlkNum,
                   pollResult, slept, txVars, feeVars, chainVars, gasVars, nodeVars, fillVars>>

\* event.get_logs (line 52) raises, after queriedBlkNum += 1
LoopQueryFails ==
    /\ ppc = "loop"
    /\ ~(queriedBlkNum >= currBlkNum)
    /\ LET n == queriedBlkNum + 1
       IN  /\ queriedBlkNum' = n
           /\ queriedSeq' = Append(queriedSeq, n)
           /\ queriedTo' = Append(queriedTo, n)
    /\ rpcFailed' = TRUE
    /\ ppc' = "rpcError"
    /\ UNCHANGED <<fromBlock, timeoutByBlkNum, probed, blkPeriod, currBlkNum,
                   pollResult, slept, txVars, feeVars, chainVars, gasVars, nodeVars, fillVars>>

NextPollRpc ==
    \/ NewBlock
    \/ GetBlockPeriod
    \/ LoopWait
    \/ SleepRefresh
    \/ LoopQuery
    \/ GetBlockPeriodFails
    \/ SleepRefreshFails
    \/ LoopQueryFails

SpecPollRpc == InitPoll /\ [][NextPollRpc]_vars

(***************************************************************************)
(* The node guard: GethNodeGuard and GethDevNodeGuard, the calls made on   *)
(* one guard object, and the node processes                                *)
(***************************************************************************)
\* waitInterval = 1.0, the unit in which waitedTime and termTimeout are counted
WaitInterval == 1

StartFailures == {"ConnectTimeout", "QueryFailed"}

KillsSent(p) ==
    Cardinality({i \in DOMAIN signals : signals[i].pid = p /\ signals[i].sig = "kill"})

\* Popen.terminate / Popen.kill: the signal goes out unless the process has completed
SendSignal(sent, p, sig, at) ==
    IF procState[p] = "running"
    THEN Append(sent, [pid |-> p, sig |-> sig, waited |-> at])
    ELSE sent

\* a Stop that kills without looking at the time waited
KillDue_Always(waitedSoFar, timeout) == TRUE

\* waitedTime >= self.termTimeout
KillDue(waitedSoFar, timeout) == waitedSoFar >= timeout

NodeInit ==
    /\ guardKind \in {"base", "dev"}
    /\ termTimeout \in 0 .. MaxTermTimeout
    /\ connTimeout \in 0 .. MaxConnTimeout
    /\ gpc = "idle" /\ proc = NoProc
    /\ procState = [p \in Pids |-> "none"]
    /\ listening = NoProc /\ w3 = FALSE /\ devAccount = FALSE
    /\ waitedTime = 0 /\ connWaited = 0
    /\ signals = <<>> /\ exitSeen = EmptyMsg
    /\ startedPid = NoProc /\ lastCall = "none"

\* GethNodeGuard.Start: self.proc = subprocess.Popen(...); for the dev guard
\* the start of GethDevNodeGuard.Start up to its connection loop
Start ==
    /\ gpc = "idle"
    /\ \E p \in Pids :
          /\ procState[p] = "none"
          /\ \A q \in Pids : q < p => procState[q] # "none"
          /\ proc' = p
          /\ startedPid' = p
          /\ procState' = [procState EXCEPT ![p] = "running"]
    /\ IF guardKind = "dev"
       THEN /\ w3' = TRUE /\ connWaited' = 0
            /\ gpc' = "connect" /\ UNCHANGED lastCall
       ELSE /\ lastCall' = "Start"
            /\ UNCHANGED <<w3, connWaited, gpc>>
    /\ UNCHANGED <<guardKind, termTimeout, connTimeout, listening, devAccount, waitedTime,
                   signals, exitSeen, txVars, feeVars, chainVars, pollVars, gasVars, fillVars>>

\* GethDevNodeGuard.Start: one turn of `while not self.w3.is_connected()`, and
\* the account queries once connected
StartConnect ==
    /\ gpc = "connect"
    /\ IF listening # NoProc
       THEN \/ /\ devAccount' = TRUE
               /\ gpc' = "idle" /\ lastCall' = "Start"
               /\ UNCHANGED connWaited
            \/ /\ gpc' = "idle" /\ lastCall' = "QueryFailed"
               /\ UNCHANGED <<devAccount, connWaited>>
       ELSE IF connWaited >= connTimeout
            THEN /\ gpc' = "idle" /\ lastCall' = "ConnectTimeout"
                 /\ UNCHANGED <<devAccount, connWaited>>
            ELSE /\ connWaited' = connWaited + 1
                 /\ UNCHANGED <<devAccount, gpc, lastCall>>
    /\ UNCHANGED <<guardKind, termTimeout, connTimeout, proc, procState, listening, w3,
                   waitedTime, signals, exitSeen, startedPid,
                   txVars, feeVars, chainVars, pollVars, gasVars, fillVars>>

\* Stop, up to its loop; with self.proc None only GethDevNodeGuard.Stop's self.w3 = None
Stop ==
    /\ gpc = "idle"
    /\ IF proc # NoProc
       THEN /\ waitedTime' = 0
            /\ gpc' = "stopLoop"
            /\ UNCHANGED <<w3, lastCall>>
       ELSE /\ w3' = (IF guardKind = "dev" THEN FALSE ELSE w3)
            /\ lastCall' = "Stop"
            /\ UNCHANGED <<waitedTime, gpc>>
    /\ UNCHANGED <<guardKind, termTimeout, connTimeout, proc, procState, listening,
                   devAccount, connWaited, signals, exitSeen, startedPid,
                   txVars, feeVars, chainVars, pollVars, gasVars, fillVars>>

\* a Stop whose loop ends without forgetting the process
StopLoop_KeepsProc ==
    /\ gpc = "stopLoop"
    /\ IF procState[proc] = "running"
       THEN /\ signals' = SendSignal(signals, proc, "term", waitedTime)
            /\ gpc' = "stopWait"
            /\ UNCHANGED <<w3, lastCall>>
       ELSE /\ w3' = (IF guardKind = "dev" THEN FALSE ELSE w3)
            /\ gpc' = "idle" /\ lastCall' = "Stop"
            /\ UNCHANGED signals
    /\ UNCHANGED <<guardKind, termTimeout, connTimeout, proc, procState, listening,
                   devAccount, waitedTime, connWaited, exitSeen, startedPid,
                   txVars, feeVars, chainVars, pollVars, gasVars, fillVars>>

\* `while self.proc.poll() is None:` and either self.proc.terminate() or the end of Stop
StopLoop ==
    /\ gpc = "stopLoop"
    /\ IF procState[proc] = "running"
       THEN /\ signals' = SendSignal(signals, proc, "term", waitedTime)
            /\ gpc' = "stopWait"
            /\ UNCHANGED <<proc, w3, lastCall>>
       ELSE /\ proc' = NoProc
            /\ w3' = (IF guardKind = "dev" THEN FALSE ELSE w3)
            /\ gpc' = "idle" /\ lastCall' = "Stop"
            /\ UNCHANGED signals
    /\ UNCHANGED <<guardKind, termTimeout, connTimeout, procState, listening, devAccount,
                   waitedTime, connWaited, exitSeen, startedPid,
                   txVars, feeVars, chainVars, pollVars, gasVars, fillVars>>

\* self.proc.wait(timeout=waitInterval), waitedTime += ..., and the kill when due;
\* a process that has been sent MaxKillLag kills does not outlast another wait
StopWait ==
    /\ gpc = "stopWait"
    /\ \E elapsed \in 0 .. WaitInterval :
          /\ IF procState[proc] = "running"
             THEN /\ elapsed = WaitInterval
                  /\ KillsSent(proc) < MaxKillLag
                  /\ UNCHANGED exitSeen
             ELSE exitSeen' = (proc :> (waitedTime + elapsed)) @@ exitSeen
          /\ waitedTime' = waitedTime + elapsed
          /\ signals' = IF KillDue(waitedTime + elapsed, termTimeout)
                        THEN SendSignal(signals, proc, "kill", waitedTime + elapsed)
                        ELSE signals
    /\ gpc' = "stopLoop"
    /\ UNCHANGED <<guardKind, termTimeout, connTimeout, proc, procState, listening, w3,
                   devAccount, connWaited, startedPid, lastCall,
                   txVars, feeVars, chainVars, pollVars, gasVars, fillVars>>

\* a node process ends: on a signal, or on its own
ProcExits ==
    /\ \E p \in Pids :
          /\ procState[p] = "running"
          /\ procState' = [procState EXCEPT ![p] = "exited"]
          /\ listening' = IF listening = p THEN NoProc ELSE listening
    /\ UNCHANGED <<guardKind, termTimeout, connTimeout, gpc, proc, w3, devAccount,
                   waitedTime, connWaited, signals, exitSeen, startedPid, lastCall,
                   txVars, feeVars, chainVars, pollVars, gasVars, fillVars>>

\* a running node process starts to answer on the HTTP port, if the port is free
NodeComesUp ==
    /\ listening = NoProc
    /\ \E p \in Pids :
          /\ procState[p] = "running"
          /\ listening' = p
    /\ UNCHANGED <<guardKind, termTimeout, connTimeout, gpc, proc, procState, w3,
                   devAccount, waitedTime, connWaited, signals, exitSeen, startedPid,
                   lastCall, txVars, feeVars, chainVars, pollVars, gasVars, fillVars>>

InitNode == TxParked /\ FeeIdle /\ PollIdle /\ GasIdle /\ NodeInit /\ FillIdle

NextNode ==
    \/ Start
    \/ StartConnect
    \/ Stop
    \/ StopLoop
    \/ StopWait
    \/ ProcExits
    \/ NodeComesUp

SpecNode == InitNode /\ [][NextNode]_vars

\* the process Stop has sent a kill to ends
KilledProcExits ==
    /\ proc # NoProc
    /\ procState[proc] = "running"
    /\ KillsSent(proc) > 0
    /\ procState' = [procState EXCEPT ![proc] = "exited"]
    /\ listening' = IF listening = proc THEN NoProc ELSE listening
    /\ UNCHANGED <<guardKind, termTimeout, connTimeout, gpc, proc, w3, devAccount,
                   waitedTime, connWaited, signals, exitSeen, startedPid, lastCall,
                   txVars, feeVars, chainVars, pollVars, gasVars, fillVars>>

\* the base class alone: a GethNodeGuard, its Start and Stop, and its processes
InitBaseNode == InitNode /\ guardKind = "base" /\ connTimeout = 0

NextBaseNode ==
    \/ Start
    \/ Stop
    \/ StopLoop
    \/ StopWait
    \/ ProcExits

SpecBaseNode == InitBaseNode /\ [][NextBaseNode]_vars

\* Stop runs on: its loop and its wait are taken when they can be, and a killed
\* process ends
SpecBaseNodeFair ==
    /\ SpecBaseNode
    /\ WF_vars(StopLoop)
    /\ WF_vars(StopWait)
    /\ WF_vars(KilledProcExits)

(***************************************************************************)
(* GethDevNodeGuard.FillAccount, called on a started guard                 *)
(***************************************************************************)
\* 10^18 as digits: the wei of one ether
WeiPerEther == <<0, 1600, 935, 2923, 3552>>

\* self.w3.to_wei(amountEth, 'ether')
ToWei(eth) == MulN(NatOf(eth), WeiPerEther)

\* a guard after a GethDevNodeGuard.Start that found its node
DevNodeStarted ==
    /\ guardKind = "dev" /\ termTimeout = 0 /\ connTimeout = 0
    /\ gpc = "idle" /\ proc = 1
    /\ procState = [p \in Pids |-> IF p = 1 THEN "running" ELSE "none"]
    /\ listening = 1 /\ w3 = TRUE /\ devAccount = TRUE
    /\ waitedTime = 0 /\ connWaited = 0
    /\ signals = <<>> /\ exitSeen = EmptyMsg
    /\ startedPid = 1 /\ lastCall = "Start"

FillInit ==
    /\ fpc = "fillAccount"
    /\ accAddr \in Addrs
    /\ amountWei \in {NoAmount} \cup (0 .. MaxFillWei)
    /\ amountEth \in {NoAmount} \cup (0 .. MaxFillEth)
    /\ fillWei = <<>> /\ transfers = <<>> /\ fillReceipt = <<>> /\ fillError = "none"

\* FillAccount up to its first log line: the argument checks, the conversion of
\* amountEth, and f'transferring {amountEth:.2f} ETH ...', which raises a
\* TypeError when amountEth is None
FillAccountArgs ==
    /\ fpc = "fillAccount"
    /\ IF amountWei = NoAmount /\ amountEth = NoAmount
       THEN /\ fpc' = "failed" /\ fillError' = "ValueError"
            /\ UNCHANGED fillWei
       ELSE IF amountWei # NoAmount /\ amountEth # NoAmount
       THEN /\ fpc' = "failed" /\ fillError' = "ValueError"
            /\ UNCHANGED fillWei
       ELSE IF amountWei = NoAmount
       THEN /\ fillWei' = ToWei(amountEth)
            /\ fpc' = "send"
            /\ UNCHANGED fillError
       ELSE /\ fillWei' = NatOf(amountWei)
            /\ fpc' = "failed" /\ fillError' = "TypeError"
    /\ UNCHANGED <<accAddr, amountWei, amountEth, transfers, fillReceipt,
                   txVars, feeVars, chainVars, pollVars, gasVars, nodeVars>>

\* tx = {...}; txHash = self.w3.eth.send_transaction(tx)
FillAccountSend ==
    /\ fpc = "send"
    /\ transfers' = Append(transfers,
          [from |-> IF devAccount THEN NodeAccount0 ELSE NoAccount,
           to |-> accAddr, value |-> fillWei, gas |-> TransferGas])
    /\ fpc' = "receipt"
    /\ UNCHANGED <<accAddr, amountWei, amountEth, fillWei, fillReceipt, fillError,
                   txVars, feeVars, chainVars, pollVars, gasVars, nodeVars>>

\* receipt = self.w3.eth.wait_for_transaction_receipt(txHash) and the status check
FillAccountReceipt ==
    /\ fpc = "receipt"
    /\ \E status \in {0, 1} :
          /\ fillReceipt' = <<[status |-> status]>>
          /\ IF status # 1
             THEN fpc' = "failed" /\ fillError' = "RuntimeError"
             ELSE fpc' = "done" /\ UNCHANGED fillError
    /\ UNCHANGED <<accAddr, amountWei, amountEth, fillWei, transfers,
                   txVars, feeVars, chainVars, pollVars, gasVars, nodeVars>>

InitFill == TxParked /\ FeeIdle /\ PollIdle /\ GasIdle /\ DevNodeStarted /\ FillInit

NextFill ==
    \/ FillAccountArgs
    \/ FillAccountSend
    \/ FillAccountReceipt

SpecFill == InitFill /\ [][NextFill]_vars

(***************************************************************************)
(* Properties                                                              *)
(***************************************************************************)
\* the worst-case cost of the built transaction, from its own fields
GuardCost == (tx.maxFeePerGas + tx.maxPriorityFeePerGas) * tx.gas + tx.value

\* C1: once _SignTx has read the balance, the execution has failed with the
\* insufficient-balance error exactly when (maxFeePerGas + maxPriorityFeePerGas)
\* * gas + value > balance; when that cost is <= balance (the boundary
\* included) it went on to the prompt (confirmPrompt) or to signing.
C1_BalanceGuard ==
    guardRuns > 0 =>
        /\ maxCost = GuardCost
        /\ GuardCost > balance =>
              /\ pc = "failed" /\ error = "InsufficientBalance"
              /\ prompts = 0 /\ signCalls = 0
        /\ GuardCost <= balance =>
              /\ error # "InsufficientBalance"
              /\ confirmPrompt => (pc = "prompt" \/ prompts = 1)
              /\ ~confirmPrompt => (pc = "sign" \/ signCalls = 1)

\* C1 witness: the guard accepted a transaction whose cost is the whole balance
C1_Witness ==
    /\ guardRuns = 1 /\ balance > 0 /\ GuardCost = balance
    /\ signCalls = 1

IsTransaction == ~(op = "call" /\ stateMutability = "view")

\* C2: in every execution of the pipeline: a failed execution (estimation,
\* balance guard, prompt) has submitted nothing; there is never more than one
\* submission; a submission is there only after every check that applies has
\* passed (the estimate when gas was None; with a key, the balance guard and,
\* with confirmPrompt, the affirmative answer); a finished execution has
\* exactly one; and the receipt is waited for after the submission, by the
\* hash that submission returned.
C2_SubmitOnlyAfterChecks ==
    /\ Len(submissions) <= 1
    /\ pc = "failed" => submissions = <<>> /\ waited = <<>>
    /\ submissions # <<>> =>
          /\ gasArg = NoGas => Len(estimated) = 1
          /\ submissions[1].via = (IF privKey = NoKey THEN "transact" ELSE "raw")
          /\ privKey # NoKey =>
                /\ guardRuns = 1 /\ GuardCost <= balance
                /\ signCalls = 1
                /\ confirmPrompt => prompts = 1 /\ confirm \in {"yes", "YES", "Yes"}
    /\ (pc = "done" /\ IsTransaction) => Len(submissions) = 1
    /\ Len(waited) <= Len(submissions)
    /\ waited # <<>> =>
          /\ waited = <<submissions[1].hash>>
          /\ pc = "done" /\ receipt.transactionHash = submissions[1].hash

\* C2 witness: a finished execution that estimated, passed the guard, was
\* confirmed, and submitted once
C2_Witness ==
    /\ pc = "done" /\ Len(submissions) = 1 /\ submissions[1].via = "raw"
    /\ Len(estimated) = 1 /\ prompts = 1 /\ waited = <<submissions[1].hash>>

\* the lowest block >= fromBlock of the chain that holds a matching log, if any
Matching == {b \in DOMAIN chainLogs : b >= fromBlock /\ chainLogs[b]}
IsLowestMatch(b) == b \in Matching /\ \A c \in Matching : b <= c
Queried == {queriedSeq[i] : i \in DOMAIN queriedSeq}

\* C3: WaitForEvent never queries a block above the lowest block >= fromBlock
\* that holds a matching log; once it has queried that block it has returned,
\* and what it returned is exactly that block's logs.
C3_ReturnsFirstMatch ==
    /\ \A q \in Queried : \A b \in Matching : q <= b
    /\ \A b \in Queried : IsLowestMatch(b) => ppc = "found"
    /\ ppc = "found" =>
          /\ IsLowestMatch(queriedBlkNum)
          /\ queriedSeq[Len(queriedSeq)] = queriedBlkNum
          /\ pollResult = LogsOf(queriedBlkNum) /\ pollResult # <<>>
          /\ \A i \in DOMAIN pollResult : pollResult[i].blockNumber = queriedBlkNum

\* C3 witness: the poller waited, found the log three blocks after fromBlock,
\* and a later block that holds a log too was never queried
C3_Witness ==
    /\ ppc = "found" /\ slept
    /\ queriedSeq = <<fromBlock, fromBlock + 1, fromBlock + 2>>
    /\ chainHead > queriedBlkNum /\ chainLogs[chainHead]

\* C4: with timeoutByBlkNum = T > 0, WaitForEvent never queries a block above
\* fromBlock + T; once it has queried fromBlock + T and found nothing it has
\* returned the empty list; and when it returns the empty list it has queried
\* exactly fromBlock, ..., fromBlock + T, none of which holds a matching log.
C4_TimesOutAfterWindow ==
    /\ timeoutByBlkNum > 0 => \A q \in Queried : q <= fromBlock + timeoutByBlkNum
    /\ (/\ timeoutByBlkNum > 0
        /\ fromBlock + timeoutByBlkNum \in Queried
        /\ ~chainLogs[fromBlock + timeoutByBlkNum]) => ppc = "timedOut"
    /\ ppc = "timedOut" =>
          /\ timeoutByBlkNum > 0
          /\ pollResult = <<>>
          /\ queriedSeq = [i \in 1 .. timeoutByBlkNum + 1 |-> fromBlock + i - 1]
          /\ \A b \in fromBlock .. fromBlock + timeoutByBlkNum : ~chainLogs[b]

\* C4 witness: timed out with T = 2 while block fromBlock + 3 exists
C4_Witness ==
    /\ ppc = "timedOut" /\ timeoutByBlkNum = 2
    /\ queriedSeq = <<fromBlock, fromBlock + 1, fromBlock + 2>>
    /\ chainHead >= fromBlock + 3

Polling == ppc \in {"loop", "sleep"}
Returned == ppc \in {"found", "timedOut"}

\* C5 as claimed: with a bounded timeout the poller, once polling, always
\* returns eventually -- whatever the chain does.
C5_AlwaysReturns == (Polling /\ timeoutByBlkNum > 0) ~> Returned

\* C5 as amended: with a bounded timeout T > 0 the poller, once polling,
\* returns eventually if the chain has reached block fromBlock + T or holds a
\* matching log in a block >= fromBlock.
C5_ReturnsWhenChainAdvances ==
    (/\ Polling /\ timeoutByBlkNum > 0
     /\ (chainHead >= fromBlock + timeoutByBlkNum \/ Matching # {})) ~> Returned

\* C5 witness: the poller had to sleep for the chain, and then timed out
C5_Witness == ppc = "timedOut" /\ slept /\ timeoutByBlkNum > 0

\* C6 as claimed: whenever the key given to the pipeline is not the key of
\* the default account, nothing is signed with it and nothing is submitted
\* (the signing step having rejected the pair with a key-mismatch error).
C6_KeyMismatchRejected ==
    (privKey # NoKey /\ AddrOf(privKey) # default_account) =>
        /\ signCalls = 0 /\ signedTx = EmptyMsg
        /\ submissions = <<>>

\* C7: DefaultFeeCalculator(p, f) = (priorityFee, maxFee) where priorityFee is
\* the larger of floor(2p / 100) and f, and maxFee = p + priorityFee.
C7_FeeFormula ==
    feeDone =>
        LET p == ethGasPrice
            f == ethMaxPriorityFee
            priorityFee == feeResult[1]
            maxFee == feeResult[2]
            q == CHOOSE k \in 0 .. p : 100 * k <= 2 * p /\ 2 * p < 100 * (k + 1)
        IN  /\ priorityFee >= f /\ priorityFee >= q
            /\ priorityFee \in {f, q}
            /\ maxFee = p + priorityFee

\* C7 witness: the 2% share (2 of 100) is above the node's floor (1)
C7_Witness ==
    /\ feeDone /\ ethGasPrice = 100 /\ ethMaxPriorityFee = 1
    /\ feeResult = <<2, 102>>

ExpectedValue == IF stateMutability = "payable" THEN valueArg ELSE 0

\* C8: in DeployContract and in CallContractFunc on a non-view function, the
\* value given to estimate_gas, carried by the message and the built
\* transaction, counted by the balance guard and submitted is the caller's
\* value when stateMutability is "payable" and 0 otherwise.
C8_ValueByPayability ==
    IsTransaction =>
        /\ \A i \in DOMAIN estimated : estimated[i] = ExpectedValue
        /\ msg # EmptyMsg => msg.value = ExpectedValue
        /\ tx # EmptyMsg => tx.value = ExpectedValue
        /\ guardRuns > 0 =>
              maxCost = (tx.maxFeePerGas + tx.maxPriorityFeePerGas) * tx.gas + ExpectedValue
        /\ \A i \in DOMAIN submissions : submissions[i].value = ExpectedValue

\* C8 witness: a deployment through a non-payable constructor with value > 0
\* was submitted with value 0
C8_Witness ==
    /\ op = "deploy" /\ stateMutability = "nonpayable" /\ valueArg > 0
    /\ Len(submissions) = 1 /\ submissions[1].value = 0

\* C9: CallContractFunc on a view function does executable.call() and returns
\* its result, and nothing else: no estimate, no message, no fee or price
\* read, no built transaction, no balance guard, no prompt, no signature, no
\* submission, no receipt wait.
C9_ViewOnlyCalls ==
    (op = "call" /\ stateMutability = "view") =>
        /\ estimated = <<>> /\ feeCalls = 0 /\ priceReads = 0
        /\ msg = EmptyMsg /\ tx = EmptyMsg /\ buildCalls = 0
        /\ guardRuns = 0 /\ prompts = 0 /\ signCalls = 0
        /\ submissions = <<>> /\ waited = <<>>
        /\ pc \in {"setup", "entry", "done", "failed"}
        /\ pc = "failed" => error = "KeyMismatch"
        /\ pc = "done" => callCalls = 1 /\ result = "callResult"

\* C9 witness: a view call returned although a key, a gas limit, a value and
\* confirmPrompt were given
C9_Witness ==
    /\ op = "call" /\ stateMutability = "view" /\ pc = "done"
    /\ privKey # NoKey /\ gasArg # NoGas /\ valueArg > 0 /\ confirmPrompt

GasResolved == pc \in {"fillMessage", "build", "transact", "signTx", "prompt",
                       "sign", "sendRaw", "waitReceipt"}
                  \/ (pc = "done" /\ IsTransaction)

\* C10: with an explicit gas limit _DetermineGas returns it unchanged and
\* estimate_gas is never called; with gas = None estimate_gas has been called
\* exactly once when _DetermineGas is over.
C10_ExplicitGasPassThrough ==
    /\ gasArg # NoGas => estimated = <<>> /\ gas = gasArg
    /\ Len(estimated) <= 1
    /\ (GasResolved /\ gasArg = NoGas) => Len(estimated) = 1
    /\ (GasResolved /\ msg # EmptyMsg) => msg.gas = gas
    /\ \A i \in DOMAIN submissions : gasArg # NoGas => submissions[i].gas = gasArg

\* C10 witness: an explicit gas limit of 0 went through to the submission
C10_Witness ==
    /\ gasArg = 0 /\ pc = "done" /\ estimated = <<>>
    /\ Len(submissions) = 1 /\ submissions[1].gas = 0

\* g = floor(11 * n / 10), that is 10 * g <= 11 * n < 10 * (g + 1)
IsFloorOfElevenTenths(g, n) ==
    /\ LeqN(MulDigit(g, 10, 0), MulDigit(n, 11, 0))
    /\ LessN(MulDigit(n, 11, 0), MulDigit(AddN(g, <<1>>), 10, 0))

\* 5 * 10^14
ExactBelow == <<0, 1588, 3922, 3179, 1>>

\* C11 as claimed: with gas = None the resolved gas is floor(11 * estimate /
\* 10) for every estimate, and never below the estimate.
C11_FloorForEveryEstimate ==
    (gasDone /\ gasIn = NoGas) =>
        /\ IsFloorOfElevenTenths(gasOut, estGas)
        /\ LeqN(estGas, gasOut)

\* C11 as amended: with gas = None the resolved gas is never below
\* floor(11 * estimate / 10), hence never below the estimate, and it is equal
\* to floor(11 * estimate / 10) for every estimate below 5 * 10^14.
C11_InflatedEstimate ==
    (gasDone /\ gasIn = NoGas) =>
        /\ LessN(MulDigit(estGas, 11, 0), MulDigit(AddN(gasOut, <<1>>), 10, 0))
        /\ LeqN(estGas, gasOut)
        /\ LessN(estGas, ExactBelow) => IsFloorOfElevenTenths(gasOut, estGas)

\* C11 witness: the estimate 511772684928469 resolved to 562949953421316,
\* one above floor(11 * 511772684928469 / 10) = 562949953421315
C11_Witness ==
    /\ gasDone /\ gasIn = NoGas
    /\ estGas = <<1493, 372, 1117, 3351, 1>>
    /\ gasOut = <<4, 0, 0, 0, 2>>

BaseFields == {"nonce", "chainId", "gas", "value"}
FeeFields == {"maxPriorityFeePerGas", "maxFeePerGas"}

\* C12: every message _FillMessage has built holds nonce, chainId, gas and
\* value (the resolved gas and the effective value), and holds
\* maxPriorityFeePerGas and maxFeePerGas if and only if a private key was
\* given; without a key the fee calculator is never called and gas price and
\* priority fee are never read; with a key they are, once.
C12_MessageFields ==
    /\ msg # EmptyMsg =>
          /\ BaseFields \subseteq DOMAIN msg
          /\ msg.chainId = ChainId /\ msg.gas = gas /\ msg.value = value
          /\ privKey # NoKey => DOMAIN msg = BaseFields \cup FeeFields
          /\ privKey = NoKey => DOMAIN msg = BaseFields
          /\ privKey # NoKey => feeCalls = 1 /\ priceReads = 1
    /\ privKey = NoKey => feeCalls = 0 /\ priceReads = 0
    /\ msg = EmptyMsg => feeCalls = 0 /\ priceReads = 0

\* C12 witness: a message without fee fields went to the node's managed
\* account although the node quotes prices
C12_Witness ==
    /\ pc = "waitReceipt" /\ privKey = NoKey
    /\ DOMAIN msg = BaseFields /\ priceReads = 0
    /\ Len(submissions) = 1 /\ submissions[1].via = "transact"

Affirmative == {"yes", "YES", "Yes"}

\* C13: with a key and confirmPrompt, a signature exists only after one
\* prompt answered "yes" in any letter case; an affirmative answer is never
\* taken for a cancellation; any other answer ends the execution with the
\* cancelled error, nothing signed and nothing submitted. Without
\* confirmPrompt there is no prompt and a transaction that passed the balance
\* guard is at the signature or signed.
C13_ConfirmBeforeSign ==
    /\ prompts <= 1
    /\ prompts = 1 => confirmPrompt /\ privKey # NoKey /\ guardRuns = 1
    /\ (confirmPrompt /\ signCalls > 0) => prompts = 1 /\ confirm \in Affirmative
    /\ (prompts = 1 /\ confirm \in Affirmative) =>
          error = "none" /\ (pc = "sign" \/ signCalls = 1)
    /\ (prompts = 1 /\ confirm \notin Affirmative) =>
          /\ pc = "failed" /\ error = "Cancelled"
          /\ signCalls = 0 /\ signedTx = EmptyMsg /\ submissions = <<>>
    /\ error = "Cancelled" => prompts = 1 /\ confirm \notin Affirmative
    /\ ~confirmPrompt =>
          /\ prompts = 0 /\ confirm = "none"
          /\ (guardRuns = 1 /\ pc # "failed") => (pc = "sign" \/ signCalls = 1)

\* C13 witness: the user typed YES and the transaction was signed and sent
C13_Witness ==
    /\ confirmPrompt /\ prompts = 1 /\ confirm = "YES"
    /\ signCalls = 1 /\ Len(submissions) = 1

\* C17: a submission goes through executable.transact exactly when no key
\* was given and as a raw signed transaction exactly when one was; without a
\* key nothing is built or signed locally; a raw submission is the one built
\* and signed transaction; and once the receipt has been waited for the
\* execution is over without error and returns that receipt, whether its
\* status is 1 or 0.
C17_SubmissionPaths ==
    /\ \A i \in DOMAIN submissions :
          /\ submissions[i].via = "transact" <=> privKey = NoKey
          /\ submissions[i].via = "raw" <=> privKey # NoKey
          /\ submissions[i].via = "raw" =>
                /\ buildCalls = 1 /\ signCalls = 1
                /\ signedTx.tx = tx /\ tx.gas = msg.gas /\ tx.value = msg.value
    /\ privKey = NoKey =>
          buildCalls = 0 /\ signCalls = 0 /\ tx = EmptyMsg /\ signedTx = EmptyMsg
    /\ waited # <<>> =>
          /\ pc = "done" /\ error = "none" /\ result = "receipt"
          /\ receipt.status \in {0, 1}
          /\ receipt.transactionHash = txHash
    /\ (pc = "done" /\ IsTransaction) => waited # <<>>

\* C17 witness: a signed transaction failed on chain and its receipt was returned
C17_Witness ==
    /\ pc = "done" /\ result = "receipt" /\ receipt.status = 0
    /\ error = "none" /\ submissions[1].via = "raw"

\* the get_logs calls so far asked for fromBlock, fromBlock + 1, ... one block each
QueriedInOrder ==
    /\ queriedSeq = [i \in 1 .. Len(queriedSeq) |-> fromBlock + i - 1]
    /\ queriedTo = queriedSeq

\* a step of the poller that issues a get_logs call
QueryStep == queriedSeq' # queriedSeq

\* a step of the poller that starts a sleep
SleepStep == ppc = "loop" /\ ppc' = "sleep"

\* C18: in any execution of WaitForEvent, failing chain-client calls
\* included: the get_logs calls ask for one block each, fromBlock,
\* fromBlock + 1, ... in that order (so no block twice); every queried block
\* is <= the head the poller read last, which is <= the chain's head; at the
\* top of the loop the poller goes to sleep exactly when queriedBlkNum >=
\* currBlkNum and otherwise queries block queriedBlkNum + 1 without having
\* slept in between; and a sleep ends by reading the head again.
C18_QueriesInOrder ==
    /\ [](/\ QueriedInOrder
          /\ \A q \in Queried : q <= currBlkNum
          /\ ppc \in {"loop", "sleep"} => currBlkNum <= chainHead
          /\ queriedSeq # <<>> => queriedBlkNum = queriedSeq[Len(queriedSeq)]
          /\ ppc = "sleep" => queriedBlkNum >= currBlkNum /\ slept)
    /\ [][/\ SleepStep => queriedBlkNum >= currBlkNum
          /\ QueryStep =>
                /\ ppc = "loop" /\ queriedBlkNum < currBlkNum
                /\ queriedSeq' = Append(queriedSeq, queriedBlkNum + 1)
                /\ slept' = slept /\ currBlkNum' = currBlkNum
          /\ (ppc = "loop" /\ pollVars' # pollVars) =>
                IF queriedBlkNum >= currBlkNum
                THEN ppc' = "sleep" /\ slept' /\ ~QueryStep
                ELSE QueryStep /\ ppc' # "sleep"
          /\ (ppc = "sleep" /\ pollVars' # pollVars) =>
                \/ ppc' = "loop" /\ currBlkNum' = chainHead /\ ~QueryStep
                \/ ppc' = "rpcError" /\ ~QueryStep]_vars

\* C18 witness: the poller queried two blocks, slept for the third, read the
\* new head and is behind it again
C18_Witness ==
    /\ ppc = "loop" /\ slept /\ Len(queriedSeq) = 2
    /\ queriedBlkNum < currBlkNum /\ fromBlock > 0

\* C19: with timeoutByBlkNum <= 0 (-1 and 0 alike) WaitForEvent never times
\* out: whenever it has returned, it has returned a non-empty list of logs;
\* and as long as no queried block holds a matching log (and no chain-client
\* call has raised) it is still polling, however far beyond fromBlock it is.
C19_UnboundedWithoutTimeout ==
    timeoutByBlkNum <= 0 =>
        /\ ppc # "timedOut"
        /\ ppc = "found" => pollResult # <<>> /\ Queried \cap Matching # {}
        /\ ppc # "found" => pollResult = <<>>
        /\ (/\ ppc \notin {"getBlockPeriod", "blockNotFound", "rpcError"}
            /\ Queried \cap Matching = {}) => Polling

\* C19 witness: with timeoutByBlkNum = 0 the poller has queried three blocks
\* beyond fromBlock without a match, has slept, and is still polling
C19_Witness ==
    /\ timeoutByBlkNum = 0 /\ Polling /\ slept
    /\ Len(queriedSeq) = 4 /\ Queried \cap Matching = {}

\* the exception of a chain-client call has left WaitForEvent
Raised == ppc \in {"rpcError", "blockNotFound"}

\* C20: when a chain-client call of WaitForEvent raises (a block lookup of
\* the period estimate, a head read, a get_logs), the execution is over with
\* that failure at once: nothing is returned, and from then on the poller
\* issues no query, starts no sleep and changes nothing.
C20_FailurePropagates ==
    /\ [](/\ rpcFailed => ppc = "rpcError"
          /\ Raised => pollResult = <<>>
          /\ ppc = "blockNotFound" => queriedSeq = <<>> /\ ~slept)
    /\ [][/\ (rpcFailed' /\ ~rpcFailed) => ppc' = "rpcError"
          /\ Raised => UNCHANGED pollVars]_vars

\* C20 witness: get_logs raised on the third block, after a sleep
C20_Witness ==
    /\ ppc = "rpcError" /\ rpcFailed /\ slept /\ Len(queriedSeq) = 3
    /\ pollResult = <<>>

\* C14 as claimed: when a Start of the dev guard has failed (the node did
\* not answer within connTimeout, or the account queries raised), the
\* process that Start spawned is not running.
C14_NoProcessAfterFailedStart ==
    (gpc = "idle" /\ lastCall \in StartFailures) => procState[startedPid] # "running"

Kills(p) == {i \in DOMAIN signals : signals[i].pid = p /\ signals[i].sig = "kill"}
Terms(p) == {i \in DOMAIN signals : signals[i].pid = p /\ signals[i].sig = "term"}

\* C15: of the signals Stop delivers to a process, the first is a terminate;
\* every kill comes after a terminate to the same process, at a moment when
\* the time waited for it has reached termTimeout; and a process whose exit
\* ended a wait before the time waited had reached termTimeout is never sent
\* a kill, nor is any process while the time waited is below termTimeout.
C15_EscalatesInOrder ==
    \A p \in Pids :
        /\ \A k \in Kills(p) :
              /\ \E t \in Terms(p) : t < k
              /\ signals[k].waited >= termTimeout
        /\ (p \in DOMAIN exitSeen /\ exitSeen[p] < termTimeout) => Kills(p) = {}
        /\ (gpc = "stopWait" /\ proc = p) => Terms(p) # {}
        /\ (gpc \in {"stopLoop", "stopWait"} /\ proc = p /\ waitedTime < termTimeout) =>
              Kills(p) = {}

\* C15 witness: a process that did not exit on terminate for termTimeout = 2
\* waits got two terminates, then the kill, and was gone after it
C15_Witness ==
    /\ termTimeout = 2 /\ gpc = "idle" /\ lastCall = "Stop"
    /\ signals = <<[pid |-> 1, sig |-> "term", waited |-> 0],
                   [pid |-> 1, sig |-> "term", waited |-> 1],
                   [pid |-> 1, sig |-> "kill", waited |-> 2]>>
    /\ procState[1] = "exited"

\* C16 as claimed: the guard never has two live processes, and when a Stop
\* has returned no process spawned by the guard is running.
C16_StopReleasesEverything ==
    /\ Cardinality({p \in Pids : procState[p] = "running"}) <= 1
    /\ (gpc = "idle" /\ lastCall = "Stop") => \A p \in Pids : procState[p] # "running"

\* WaitForEvent has got past its first line
PastEntry == ppc \in {"loop", "sleep", "found", "timedOut"} \/ queriedSeq # <<>> \/ slept

\* block fromBlock or block fromBlock - 1 is not to be had from the node
ProbeUnavailable ==
    \/ fromBlock = 0
    \/ fromBlock > chainHead
    \/ fromBlock - 1 < chainOldest

\* C21: WaitForEvent reads blocks fromBlock and fromBlock - 1 once, at entry
\* and before any get_logs, and its block period is timestamp(fromBlock) -
\* timestamp(fromBlock - 1), never computed again; when at entry one of the
\* two blocks is unavailable (fromBlock = 0, fromBlock beyond the head,
\* pruned history), and only then, it ends with block-not-found, having
\* issued no get_logs and not slept.
C21_PeriodOnceAtEntry ==
    /\ [](/\ PastEntry =>
                /\ Len(probed) = 2
                /\ probed[1].number = fromBlock /\ probed[2].number = fromBlock - 1
                /\ blkPeriod = probed[1].timestamp - probed[2].timestamp
                /\ ~ProbeUnavailable
          /\ ppc = "blockNotFound" =>
                /\ queriedSeq = <<>> /\ queriedTo = <<>> /\ ~slept
                /\ pollResult = <<>> /\ Len(probed) < 2)
    /\ [][/\ ppc # "getBlockPeriod" => UNCHANGED <<blkPeriod, probed>>
          /\ (ppc = "getBlockPeriod" /\ ppc' # ppc /\ ~rpcFailed') =>
                (ppc' = "blockNotFound" <=> ProbeUnavailable)]_vars

\* C21 witness: the period 2 = 3 - 1 was measured at entry and the poller
\* has since queried two blocks and gone to sleep
C21_Witness ==
    /\ ppc = "sleep" /\ Len(queriedSeq) = 2
    /\ blkPeriod = 2
    /\ probed = <<[number |-> fromBlock, timestamp |-> 3],
                  [number |-> fromBlock - 1, timestamp |-> 1]>>

\* the fee ceiling of the built transaction times its gas, plus its value
CeilingCost == tx.maxFeePerGas * tx.gas + tx.value

\* C23: a transaction that has passed the balance guard of _SignTx has
\* maxFeePerGas * gas + value <= the balance the guard read, the guard's bound
\* (maxFeePerGas + maxPriorityFeePerGas) * gas + value being at least that
\* amount; so every signed transaction, and every raw submission made of one,
\* has a fee ceiling times gas plus value within that balance.
C23_GuardIsConservative ==
    /\ (guardRuns > 0 /\ error # "InsufficientBalance") =>
          /\ CeilingCost <= maxCost
          /\ maxCost <= balance
          /\ CeilingCost <= balance
    /\ signCalls > 0 =>
          signedTx.tx.maxFeePerGas * signedTx.tx.gas + signedTx.tx.value <= balance
    /\ \A i \in 1 .. Len(submissions) :
          submissions[i].via = "raw" =>
              /\ submissions[i].gas = signedTx.tx.gas
              /\ submissions[i].value = signedTx.tx.value
              /\ signedTx.tx.maxFeePerGas * submissions[i].gas + submissions[i].value
                    <= balance

\* C23 witness: a submitted transaction with a positive priority fee, gas and
\* value, whose guard bound is above its fee ceiling plus value
C23_Witness ==
    /\ Len(submissions) = 1 /\ submissions[1].via = "raw"
    /\ tx.maxPriorityFeePerGas > 0 /\ tx.gas > 0 /\ tx.value > 0
    /\ CeilingCost < maxCost /\ maxCost = balance

InStop == gpc \in {"stopLoop", "stopWait"}

Stopped == gpc = "idle" /\ lastCall = "Stop"

\* a Stop called on a guard that holds no process
StopOfNothing == gpc = "idle" /\ proc = NoProc /\ lastCall # "Stop" /\ lastCall' = "Stop"

\* C22: with a killed process ending at some time, a Stop that has entered its
\* loop returns, whatever the process does with the terminate signals, and a
\* guard whose Stop has returned holds no process (proc is None); a Stop on a
\* guard that holds no process sends no signal and leaves the guard, the
\* processes and the time counters as they were.
C22_StopTerminates ==
    /\ InStop ~> (Stopped /\ proc = NoProc)
    /\ [](Stopped => proc = NoProc)
    /\ [][StopOfNothing =>
             UNCHANGED <<guardKind, termTimeout, connTimeout, gpc, proc, procState,
                         listening, w3, devAccount, waitedTime, connWaited, signals,
                         exitSeen, startedPid>>]_vars

\* C22 witness: Stop has returned after a process that outlasted two terminate
\* signals was killed, when the time waited had reached termTimeout
C22_Witness ==
    /\ Stopped /\ proc = NoProc /\ startedPid # NoProc
    /\ termTimeout = 2
    /\ Cardinality({i \in DOMAIN signals :
                       signals[i].pid = startedPid /\ signals[i].sig = "term"}) >= 2
    /\ KillsSent(startedPid) = 1
    /\ procState[startedPid] = "exited"
    /\ waitedTime >= termTimeout

FillReturned == fpc \in {"done", "failed"}

ExactlyOneAmount == (amountWei = NoAmount) # (amountEth = NoAmount)

\* the amount of the call in wei
AmountInWei == IF amountWei # NoAmount THEN NatOf(amountWei) ELSE ToWei(amountEth)

\* C24: a FillAccount that has returned or raised, called with exactly one of
\* amountWei / amountEth, has submitted exactly one transfer, of that amount in
\* wei, from the dev account to accAddr, and has raised exactly when the
\* receipt's status is not 1; called with neither or with both it has raised a
\* ValueError and submitted nothing.
C24_FillAccount ==
    FillReturned =>
        IF ExactlyOneAmount
        THEN /\ Len(transfers) = 1
             /\ transfers[1].from = NodeAccount0
             /\ transfers[1].to = accAddr
             /\ transfers[1].value = AmountInWei
             /\ Len(fillReceipt) = 1
             /\ fpc = "failed" <=> fillReceipt[1].status # 1
        ELSE /\ fpc = "failed" /\ fillError = "ValueError"
             /\ transfers = <<>>

====
